---- MODULE Spec2Model ----
(***************************************************************************)
(* Model of pybondi.repository.Repository: an identity map of aggregates   *)
(* with add, commit and rollback, driven by one caller, together with a    *)
(* snapshot storage adapter supplying the abstract store and restore.      *)
(***************************************************************************)
EXTENDS Integers, Sequences, FiniteSets, TLC

(* ------------------------------ bounds --------------------------------- *)

\* Number of aggregate instances the caller holds.
MaxInst == 4

\* Aggregate content ranges over 0..MaxVal.
MaxVal == 1

\* Number of calls the caller makes in one run.
MaxOps == 5

(* ----------------------------- aggregates ------------------------------ *)

\* Python's None as an identifier value, distinct from every identifier string.
PyNone == "<None>"

\* aggregate.root.id of the instances the caller holds: instances 1 and 2
\* share the identifier "x", instance 3 has the empty string, 4 has None.
IdTable == <<"x", "x", "", PyNone, "y">>

Insts == 1..MaxInst

Vals == 0..MaxVal

\* aggregate.root.id
IdOf(a) == IdTable[((a - 1) % Len(IdTable)) + 1]

VARIABLES
    aggregates,   \* self.aggregates: the dict, as its entries in iteration order
    other,        \* self.aggregates of a second Repository instance
    content,      \* in-memory state of each aggregate instance
    stored,       \* the adapter's durable snapshots, by identifier
    lastOp,       \* the call the caller made last
    arg,          \* the aggregates passed to that call ({} when it takes none)
    calls,        \* the adapter invocations that call made, in order
    outcome,      \* how that call ended: "ok" or the error raised
    failing,      \* tracked aggregates on which the adapter fails in that call
    pre,          \* the maps, content, snapshots, lastOp and outcome before that call
    lastAdded,    \* per identifier, the instance passed to the latest add
    replaced,     \* instances displaced by the add of another instance
    order,        \* the identifiers added, in the order of their first add
    preCommit,    \* content when the latest completed commit was called
    atCommit,     \* content when the latest completed commit returned
    phase,        \* "none", "clean" (just committed) or "dirty" (mutated since)
    nops          \* calls made so far

vars == <<aggregates, other, content, stored, lastOp, arg, calls, outcome, failing,
          pre, lastAdded, replaced, order, preCommit, atCommit, phase, nops>>

(* ------------------------- the identity map ---------------------------- *)

\* Position of key k in the dict, 0 when absent.
IndexOf(aggs, k) ==
    IF \E i \in 1..Len(aggs) : aggs[i].key = k
    THEN CHOOSE i \in 1..Len(aggs) : aggs[i].key = k
    ELSE 0

\* self.aggregates.values()
values(aggs) == [i \in 1..Len(aggs) |-> aggs[i].agg]

\* The set of tracked instances.
Tracked(aggs) == {aggs[i].agg : i \in 1..Len(aggs)}

\* The keys of the dict.
Keys(aggs) == {aggs[i].key : i \in 1..Len(aggs)}

\* A mutation of add: a list in place of the dict, every add appends.
add_Append(aggs, a) == Append(aggs, [key |-> IdOf(a), agg |-> a])

\* A mutation of add: setdefault, an identifier already tracked keeps its
\* instance.
add_KeepFirst(aggs, a) ==
    IF IndexOf(aggs, IdOf(a)) = 0
    THEN Append(aggs, [key |-> IdOf(a), agg |-> a])
    ELSE aggs

\* A mutation of add: the dict is keyed by the instance, not by its
\* identifier, so another instance with a tracked identifier is appended.
add_ByInstance(aggs, a) ==
    IF a \in Tracked(aggs) THEN aggs
    ELSE Append(aggs, [key |-> IdOf(a), agg |-> a])

\* A mutation of add: the entry of a tracked identifier is deleted and
\* written again, which moves it to the end of the dict.
add_MoveToEnd(aggs, a) ==
    Append(SelectSeq(aggs, LAMBDA e : e.key # IdOf(a)),
           [key |-> IdOf(a), agg |-> a])

\* self.aggregates[aggregate.root.id] = aggregate
add(aggs, a) ==
    LET k == IdOf(a)
        i == IndexOf(aggs, k)
    IN  IF i = 0
        THEN Append(aggs, [key |-> k, agg |-> a])
        ELSE [aggs EXCEPT ![i] = [key |-> k, agg |-> a]]

(* ------------------------- the storage adapter ------------------------- *)

\* The adapter holds a snapshot for the aggregate's identifier.
has(st, a) == IdOf(a) \in DOMAIN st

\* store(aggregate) of a snapshot adapter: keeps the full current state
\* under the aggregate's identifier.
store(st, a, c) ==
    [k \in DOMAIN st \cup {IdOf(a)} |-> IF k = IdOf(a) THEN c[a] ELSE st[k]]

\* restore(aggregate) of a snapshot adapter: puts the stored state back into
\* the given instance.
restore(st, a, c) == [c EXCEPT ![a] = st[IdOf(a)]]

\* How store(aggregate) ends when the medium fails on the aggregates in F.
storeResult(a, F) == IF a \in F THEN "StorageFailure" ELSE "ok"

\* How restore(aggregate) ends: no snapshot for the identifier is an error.
restoreResult(st, a, F) ==
    IF ~has(st, a) THEN "NotFoundError"
    ELSE IF a \in F THEN "StorageFailure" ELSE "ok"

(* --------------------------- commit, rollback -------------------------- *)

Call(op, a) == [op |-> op, agg |-> a]

\* for aggregate in self.aggregates.values(): self.store(aggregate)
\* from position i on; an exception raised by store leaves the loop.
RECURSIVE commitLoop(_, _, _, _, _)
commitLoop(vs, i, st, c, F) ==
    IF i > Len(vs)
    THEN [stored |-> st, calls |-> <<>>, outcome |-> "ok"]
    ELSE IF storeResult(vs[i], F) # "ok"
    THEN [stored |-> st, calls |-> <<Call("store", vs[i])>>,
          outcome |-> storeResult(vs[i], F)]
    ELSE LET r == commitLoop(vs, i + 1, store(st, vs[i], c), c, F)
         IN  [r EXCEPT !.calls = <<Call("store", vs[i])>> \o r.calls]

\* for aggregate in self.aggregates.values(): self.restore(aggregate)
\* from position i on; an exception raised by restore leaves the loop.
RECURSIVE rollbackLoop(_, _, _, _, _)
rollbackLoop(vs, i, st, c, F) ==
    IF i > Len(vs)
    THEN [content |-> c, calls |-> <<>>, outcome |-> "ok"]
    ELSE IF restoreResult(st, vs[i], F) # "ok"
    THEN [content |-> c, calls |-> <<Call("restore", vs[i])>>,
          outcome |-> restoreResult(st, vs[i], F)]
    ELSE LET r == rollbackLoop(vs, i + 1, st, restore(st, vs[i], c), F)
         IN  [r EXCEPT !.calls = <<Call("restore", vs[i])>> \o r.calls]

\* A mutation of commit: the loop misses the last aggregate of the map.
commit_SkipLast(aggs, st, c, F) ==
    LET vs == values(aggs)
        r == commitLoop(SubSeq(vs, 1, Len(vs) - 1), 1, st, c, F)
    IN  [aggregates |-> aggs, stored |-> r.stored, calls |-> r.calls,
         outcome |-> r.outcome]

\* A mutation of commit: an exception raised by store is caught and dropped.
commit_Swallow(aggs, st, c, F) ==
    LET r == commitLoop(values(aggs), 1, st, c, F)
    IN  [aggregates |-> aggs, stored |-> r.stored, calls |-> r.calls,
         outcome |-> "ok"]

\* A mutation of commit: the map is cleared once its aggregates are stored.
commit_Clear(aggs, st, c, F) ==
    LET r == commitLoop(values(aggs), 1, st, c, F)
    IN  [aggregates |-> <<>>, stored |-> r.stored, calls |-> r.calls,
         outcome |-> r.outcome]

\* A mutation of commit: a commit with nothing tracked is refused.
commit_RejectEmpty(aggs, st, c, F) ==
    LET r == commitLoop(values(aggs), 1, st, c, F)
    IN  [aggregates |-> aggs, stored |-> r.stored, calls |-> r.calls,
         outcome |-> IF aggs = <<>> THEN "StorageFailure" ELSE r.outcome]

\* The loop of commit with each store wrapped in try/except: a failure is
\* noted and the pass goes on to the next aggregate.
RECURSIVE commitLoop_Continue(_, _, _, _, _)
commitLoop_Continue(vs, i, st, c, F) ==
    IF i > Len(vs)
    THEN [stored |-> st, calls |-> <<>>, outcome |-> "ok"]
    ELSE LET ok == storeResult(vs[i], F) = "ok"
             r == commitLoop_Continue(vs, i + 1,
                      IF ok THEN store(st, vs[i], c) ELSE st, c, F)
         IN  [stored |-> r.stored,
              calls |-> <<Call("store", vs[i])>> \o r.calls,
              outcome |-> IF ok THEN r.outcome ELSE storeResult(vs[i], F)]

\* A mutation of commit: the pass continues after a failing store and the
\* error is raised once the pass is over.
commit_Continue(aggs, st, c, F) ==
    LET r == commitLoop_Continue(values(aggs), 1, st, c, F)
    IN  [aggregates |-> aggs, stored |-> r.stored, calls |-> r.calls,
         outcome |-> r.outcome]

\* Repository.commit(): what it leaves of the map and of the adapter's
\* snapshots, the adapter calls it makes and how it ends.
commit(aggs, st, c, F) ==
    LET r == commitLoop(values(aggs), 1, st, c, F)
    IN  [aggregates |-> aggs, stored |-> r.stored, calls |-> r.calls,
         outcome |-> r.outcome]

\* A mutation of rollback: the loop misses the last aggregate of the map.
rollback_SkipLast(aggs, st, c, F) ==
    LET vs == values(aggs)
        r == rollbackLoop(SubSeq(vs, 1, Len(vs) - 1), 1, st, c, F)
    IN  [aggregates |-> aggs, content |-> r.content, calls |-> r.calls,
         outcome |-> r.outcome]

\* A mutation of rollback: the loop misses the first aggregate of the map.
rollback_SkipFirst(aggs, st, c, F) ==
    LET vs == values(aggs)
        r == rollbackLoop(SubSeq(vs, 2, Len(vs)), 1, st, c, F)
    IN  [aggregates |-> aggs, content |-> r.content, calls |-> r.calls,
         outcome |-> r.outcome]

\* A mutation of rollback: an exception raised by restore is caught and
\* dropped.
rollback_Swallow(aggs, st, c, F) ==
    LET r == rollbackLoop(values(aggs), 1, st, c, F)
    IN  [aggregates |-> aggs, content |-> r.content, calls |-> r.calls,
         outcome |-> "ok"]

\* Repository.rollback(): what it leaves of the map and of the aggregates'
\* content, the adapter calls it makes and how it ends.
rollback(aggs, st, c, F) ==
    LET r == rollbackLoop(values(aggs), 1, st, c, F)
    IN  [aggregates |-> aggs, content |-> r.content, calls |-> r.calls,
         outcome |-> r.outcome]

(* ------------------------------ the state ------------------------------ *)

Before == [aggregates |-> aggregates, other |-> other, content |-> content,
           stored |-> stored, lastOp |-> lastOp, outcome |-> outcome]

\* Repository.__init__: the identity map starts empty. The caller's
\* aggregates start with any content; the adapter holds no snapshot.
Init ==
    /\ aggregates = <<>>
    /\ other = <<>>
    /\ content = [a \in Insts |-> 0]
    /\ stored = <<>>
    /\ lastOp = "init"
    /\ arg = {}
    /\ calls = <<>>
    /\ outcome = "ok"
    /\ failing = {}
    /\ pre = [aggregates |-> <<>>, other |-> <<>>, content |-> content,
              stored |-> <<>>, lastOp |-> "init", outcome |-> "ok"]
    /\ lastAdded = {}
    /\ replaced = {}
    /\ order = <<>>
    /\ preCommit = content
    /\ atCommit = content
    /\ phase = "none"
    /\ nops = 0

\* A mutation of Add: add persists the aggregate at once, by a call of
\* store.
Add_Storing(a) ==
    /\ nops < MaxOps
    /\ aggregates' = add(aggregates, a)
    /\ lastAdded' = {p \in lastAdded : p[1] # IdOf(a)} \cup {<<IdOf(a), a>>}
    /\ replaced' = (replaced \cup {p[2] : p \in {q \in lastAdded :
                                                   q[1] = IdOf(a)}}) \ {a}
    /\ order' = IF \E i \in 1..Len(order) : order[i] = IdOf(a)
                THEN order ELSE Append(order, IdOf(a))
    /\ lastOp' = "add"
    /\ arg' = {a}
    /\ calls' = <<Call("store", a)>>
    /\ stored' = store(stored, a, content)
    /\ outcome' = "ok"
    /\ failing' = {}
    /\ pre' = Before
    /\ phase' = "none"
    /\ nops' = nops + 1
    /\ UNCHANGED <<other, content, preCommit, atCommit>>

\* Repository.add(aggregate)
Add(a) ==
    /\ nops < MaxOps
    /\ aggregates' = add(aggregates, a)
    /\ lastAdded' = {p \in lastAdded : p[1] # IdOf(a)} \cup {<<IdOf(a), a>>}
    /\ replaced' = (replaced \cup {p[2] : p \in {q \in lastAdded :
                                                   q[1] = IdOf(a)}}) \ {a}
    /\ order' = IF \E i \in 1..Len(order) : order[i] = IdOf(a)
                THEN order ELSE Append(order, IdOf(a))
    /\ lastOp' = "add"
    /\ arg' = {a}
    /\ calls' = <<>>
    /\ outcome' = "ok"
    /\ failing' = {}
    /\ pre' = Before
    /\ phase' = "none"
    /\ nops' = nops + 1
    /\ UNCHANGED <<other, content, stored, preCommit, atCommit>>

\* The caller changes an aggregate in memory between repository calls.
Mutate(a, v) ==
    /\ nops < MaxOps
    /\ v # content[a]
    /\ content' = [content EXCEPT ![a] = v]
    /\ lastOp' = "mutate"
    /\ arg' = {a}
    /\ calls' = <<>>
    /\ outcome' = "ok"
    /\ failing' = {}
    /\ pre' = Before
    /\ phase' = IF phase = "none" THEN "none" ELSE "dirty"
    /\ nops' = nops + 1
    /\ UNCHANGED <<aggregates, other, stored, lastAdded, replaced, order,
                   preCommit, atCommit>>

\* Repository.commit(), the medium failing on the aggregates in F.
Commit(F) ==
    /\ nops < MaxOps
    /\ content' = content
    /\ LET r == commit(aggregates, stored, content, F)
       IN  /\ aggregates' = r.aggregates
           /\ stored' = r.stored
           /\ calls' = r.calls
           /\ outcome' = r.outcome
           /\ phase' = IF r.outcome = "ok" THEN "clean" ELSE "none"
           /\ preCommit' = IF r.outcome = "ok" THEN content ELSE preCommit
           /\ atCommit' = IF r.outcome = "ok" THEN content' ELSE atCommit
    /\ lastOp' = "commit"
    /\ arg' = {}
    /\ failing' = F
    /\ pre' = Before
    /\ nops' = nops + 1
    /\ UNCHANGED <<other, lastAdded, replaced, order>>

\* Repository.rollback(), the medium failing on the aggregates in F.
Rollback(F) ==
    /\ nops < MaxOps
    /\ stored' = stored
    /\ LET r == rollback(aggregates, stored, content, F)
       IN  /\ aggregates' = r.aggregates
           /\ content' = r.content
           /\ calls' = r.calls
           /\ outcome' = r.outcome
    /\ lastOp' = "rollback"
    /\ arg' = {}
    /\ failing' = {a \in Tracked(aggregates) :
                      restoreResult(stored, a, F) # "ok"}
    /\ pre' = Before
    /\ nops' = nops + 1
    /\ UNCHANGED <<other, lastAdded, replaced, order, preCommit, atCommit,
                   phase>>

Next ==
    \/ \E a \in Insts : Add(a)
    \/ \E a \in Insts, v \in Vals : Mutate(a, v)
    \/ \E F \in SUBSET Tracked(aggregates) : Commit(F)
    \/ \E F \in SUBSET Tracked(aggregates) : Rollback(F)

Spec == Init /\ [][Next]_vars

(* ---------------------- a second repository instance ------------------- *)

\* A mutation of AddOther: the dict is a class attribute, one object shared
\* by every Repository instance.
AddOther_Shared(a) ==
    /\ nops < MaxOps
    /\ aggregates' = add(aggregates, a)
    /\ other' = aggregates'
    /\ lastOp' = "add2"
    /\ arg' = {a}
    /\ calls' = <<>>
    /\ outcome' = "ok"
    /\ failing' = {}
    /\ pre' = Before
    /\ phase' = "none"
    /\ nops' = nops + 1
    /\ UNCHANGED <<content, stored, lastAdded, replaced, order, preCommit,
                   atCommit>>

\* Repository.add(aggregate) on the second instance.
AddOther(a) ==
    /\ nops < MaxOps
    /\ other' = add(other, a)
    /\ lastOp' = "add2"
    /\ arg' = {a}
    /\ calls' = <<>>
    /\ outcome' = "ok"
    /\ failing' = {}
    /\ pre' = Before
    /\ phase' = "none"
    /\ nops' = nops + 1
    /\ UNCHANGED <<aggregates, content, stored, lastAdded, replaced, order,
                   preCommit, atCommit>>

\* Repository.commit() on the second instance, over the same storage.
CommitOther(F) ==
    /\ nops < MaxOps
    /\ LET r == commit(other, stored, content, F)
       IN  /\ other' = r.aggregates
           /\ stored' = r.stored
           /\ calls' = r.calls
           /\ outcome' = r.outcome
    /\ lastOp' = "commit2"
    /\ arg' = {}
    /\ failing' = F
    /\ pre' = Before
    /\ phase' = "none"
    /\ nops' = nops + 1
    /\ UNCHANGED <<aggregates, content, lastAdded, replaced, order, preCommit,
                   atCommit>>

\* Repository.rollback() on the second instance, over the same storage.
RollbackOther(F) ==
    /\ nops < MaxOps
    /\ LET r == rollback(other, stored, content, F)
       IN  /\ other' = r.aggregates
           /\ content' = r.content
           /\ calls' = r.calls
           /\ outcome' = r.outcome
    /\ lastOp' = "rollback2"
    /\ arg' = {}
    /\ failing' = {a \in Tracked(other) : restoreResult(stored, a, F) # "ok"}
    /\ pre' = Before
    /\ phase' = "none"
    /\ nops' = nops + 1
    /\ UNCHANGED <<aggregates, stored, lastAdded, replaced, order, preCommit,
                   atCommit>>

\* Calls the caller makes in one run over two repository instances.
OpsTwo == MaxOps - 1

\* One caller driving two repository instances.
NextTwo ==
    \/ \E a \in Insts : nops < OpsTwo /\ Add(a)
    \/ \E a \in Insts, v \in Vals : nops < OpsTwo /\ Mutate(a, v)
    \/ \E F \in SUBSET Tracked(aggregates) : nops < OpsTwo /\ Commit(F)
    \/ \E F \in SUBSET Tracked(aggregates) : nops < OpsTwo /\ Rollback(F)
    \/ \E a \in Insts : nops < OpsTwo /\ AddOther(a)
    \/ \E F \in SUBSET Tracked(other) : nops < OpsTwo /\ CommitOther(F)
    \/ \E F \in SUBSET Tracked(other) : nops < OpsTwo /\ RollbackOther(F)

SpecTwo == Init /\ [][NextTwo]_vars

(* ------------------------------ properties ----------------------------- *)

\* The entries of the identity map, as identifier/instance pairs.
Entries(aggs) == {<<aggs[i].key, aggs[i].agg>> : i \in 1..Len(aggs)}

\* The instances a call handed to the adapter operation op.
Visited(op) == {calls[i].agg : i \in {j \in 1..Len(calls) : calls[j].op = op}}

\* How many times a call handed instance a to the adapter operation op.
Count(op, a) == Cardinality({i \in 1..Len(calls) : calls[i] = Call(op, a)})

\* C1: after any sequence of add calls, interleaved with commit, rollback
\* and mutations, the identity map has exactly one entry per identifier
\* that was added, and that entry is the instance of the latest add with
\* that identifier.
C1_LastWriteWins ==
    /\ Cardinality(Keys(aggregates)) = Len(aggregates)
    /\ Entries(aggregates) = lastAdded
    /\ \A a \in arg : lastOp = "add" =>
           aggregates[IndexOf(aggregates, IdOf(a))].agg = a

\* C1 witness: an add replaced another instance under the same identifier
\* while a second identifier stays tracked, after a commit.
C1_Witness ==
    /\ lastOp = "add"
    /\ pre.lastOp = "commit"
    /\ Len(aggregates) = 2
    /\ Len(pre.aggregates) = 2
    /\ \E a \in arg, i \in 1..Len(aggregates) :
          /\ aggregates[i].agg = a
          /\ pre.aggregates[i].key = IdOf(a)
          /\ pre.aggregates[i].agg # a

\* C2: when store fails on no tracked aggregate, one commit invokes store
\* exactly N times, once on each instance of the N in the map at the call
\* and on no other, invokes nothing else, and returns normally.
C2_CommitStoresEachOnce ==
    (lastOp = "commit" /\ failing = {}) =>
        /\ Len(calls) = Len(pre.aggregates)
        /\ \A a \in Tracked(pre.aggregates) : Count("store", a) = 1
        /\ Visited("store") = Tracked(pre.aggregates)
        /\ Visited("restore") = {}
        /\ outcome = "ok"

\* C2 witness: a commit over three tracked aggregates with no failure.
C2_Witness ==
    /\ lastOp = "commit"
    /\ failing = {}
    /\ Len(pre.aggregates) = 3
    /\ Len(calls) = 3

\* C3: when restore fails on no tracked aggregate, one rollback invokes
\* restore exactly N times, once on each instance of the N in the map at
\* the call and on no other, and never invokes store.
C3_RollbackRestoresEachOnce ==
    (lastOp = "rollback" /\ failing = {}) =>
        /\ Len(calls) = Len(pre.aggregates)
        /\ \A a \in Tracked(pre.aggregates) : Count("restore", a) = 1
        /\ Visited("restore") = Tracked(pre.aggregates)
        /\ Visited("store") = {}

\* C3 witness: a rollback over two tracked aggregates with no failure.
C3_Witness ==
    /\ lastOp = "rollback"
    /\ failing = {}
    /\ Len(pre.aggregates) = 2
    /\ Len(calls) = 2

\* C4: after a completed commit followed only by in-memory mutations (and
\* rollbacks), a rollback on which the snapshot adapter does not fail
\* leaves every tracked aggregate in its state at the latest commit.
C4_RollbackYieldsCommitted ==
    (lastOp = "rollback" /\ phase # "none" /\ failing = {}) =>
        \A a \in Tracked(aggregates) : content[a] = atCommit[a]

\* C4 witness: an aggregate committed with a state other than its first
\* one, mutated afterwards, is back at the committed state after rollback.
C4_Witness ==
    /\ lastOp = "rollback"
    /\ phase = "dirty"
    /\ failing = {}
    /\ \E a \in Tracked(aggregates) :
          /\ atCommit[a] # 0
          /\ pre.content[a] # atCommit[a]
          /\ content[a] = atCommit[a]

\* C5: a completed commit followed at once by a rollback on which the
\* snapshot adapter does not fail leaves every tracked aggregate in the
\* state it had before the commit.
C5_CommitRollbackRoundTrip ==
    (lastOp = "rollback" /\ pre.lastOp = "commit" /\ phase = "clean"
        /\ failing = {}) =>
        \A a \in Tracked(aggregates) : content[a] = preCommit[a]

\* C5 witness: commit then rollback over two aggregates, one of which was
\* committed before with another state.
C5_Witness ==
    /\ lastOp = "rollback"
    /\ pre.lastOp = "commit"
    /\ phase = "clean"
    /\ failing = {}
    /\ Len(calls) = 2
    /\ \E a \in Tracked(aggregates) : content[a] # 0

\* C6: when store (restore) fails on a tracked aggregate during commit
\* (rollback), the pass continues: the operation is still invoked on every
\* other tracked aggregate, and the call ends with an error after the pass.
C6_ContinuesAfterFailure ==
    (lastOp \in {"commit", "rollback"} /\ failing # {}) =>
        /\ Visited(IF lastOp = "commit" THEN "store" ELSE "restore")
               = Tracked(pre.aggregates)
        /\ outcome # "ok"

\* C7: add of an aggregate whose identifier is null or empty is rejected
\* with an error and leaves the identity map as it was.
C7_AddRejectsInvalidId ==
    (lastOp = "add" /\ \E a \in arg : IdOf(a) \in {"", PyNone}) =>
        /\ outcome # "ok"
        /\ aggregates = pre.aggregates

\* C8: a commit or rollback during which the adapter failed on an aggregate
\* it was handed never returns normally: the call ends with the error the
\* adapter raised.
C8_FailuresSurface ==
    (lastOp \in {"commit", "rollback"}
        /\ \E i \in 1..Len(calls) : calls[i].agg \in failing) =>
        /\ outcome # "ok"
        /\ lastOp = "commit" => outcome = "StorageFailure"
        /\ lastOp = "rollback" =>
               \E i \in 1..Len(calls) :
                   outcome = restoreResult(pre.stored, calls[i].agg, failing)

\* C8 witness: a commit stored one aggregate and the adapter failed on the
\* next one; a third aggregate is tracked.
C8_Witness ==
    /\ lastOp = "commit"
    /\ Len(pre.aggregates) = 3
    /\ Len(calls) = 2
    /\ calls[2].agg \in failing
    /\ outcome = "StorageFailure"

\* C9: a rollback on a repository tracking an aggregate whose identifier
\* was never stored ends with a NotFoundError.
C9_RollbackUnstoredNotFound ==
    (lastOp = "rollback"
        /\ \E a \in Tracked(pre.aggregates) : ~has(pre.stored, a)) =>
        outcome = "NotFoundError"

\* C10: commit and rollback, completed or failed, leave the identity map
\* as it was, so the aggregates stay tracked over repeated calls and a
\* commit that completes has stored every aggregate of the map it leaves.
C10_MapUnchanged ==
    (lastOp \in {"commit", "rollback"}) =>
        /\ aggregates = pre.aggregates
        /\ Entries(aggregates) = lastAdded
        /\ (lastOp = "commit" /\ outcome = "ok") =>
               Visited("store") = Tracked(aggregates)

\* C10 witness: a second commit in a row, after a failed first one, over
\* two tracked aggregates.
C10_Witness ==
    /\ lastOp = "commit"
    /\ pre.lastOp = "commit"
    /\ phase = "clean"
    /\ Len(aggregates) = 2
    /\ Len(calls) = 2
    /\ \E a \in Tracked(aggregates) : ~has(pre.stored, a)

\* C11: once add(B) has replaced an instance A with the same identifier,
\* the map holds one entry for that identifier, a commit over that map
\* alone invokes store exactly once, on B, and no later commit or rollback
\* hands the replaced A to store or restore.
C11_ReplacedNeverVisited ==
    /\ Tracked(aggregates) \cap replaced = {}
    /\ \A a \in replaced :
          Cardinality({i \in 1..Len(aggregates) :
                          aggregates[i].key = IdOf(a)}) = 1
    /\ (lastOp \in {"commit", "rollback"}) =>
          /\ (Visited("store") \cup Visited("restore")) \cap replaced = {}
          /\ \A a \in replaced, b \in Tracked(pre.aggregates) :
                (IdOf(b) = IdOf(a) /\ lastOp = "commit"
                    /\ Len(pre.aggregates) = 1) =>
                    calls = <<Call("store", b)>>

\* C11 witness: instance 1 was added, then instance 2 with the same
\* identifier; the commit that follows stores instance 2 alone.
C11_Witness ==
    /\ lastOp = "commit"
    /\ pre.lastOp = "add"
    /\ replaced = {1}
    /\ Len(aggregates) = 1
    /\ calls = <<Call("store", 2)>>

\* C12: a new repository has an empty identity map, and a commit or a
\* rollback with nothing tracked invokes neither store nor restore, leaves
\* the map, the aggregates and the stored snapshots as they were, and
\* returns without error.
C12_EmptyIsNoOp ==
    /\ lastOp = "init" => aggregates = <<>>
    /\ (lastOp \in {"commit", "rollback"} /\ pre.aggregates = <<>>) =>
          /\ calls = <<>>
          /\ outcome = "ok"
          /\ aggregates = <<>>
          /\ content = pre.content
          /\ stored = pre.stored

\* C12 witness: a commit on the empty map, after the caller has changed an
\* aggregate in memory, followed by nothing else.
C12_Witness ==
    /\ lastOp = "commit"
    /\ pre.lastOp = "mutate"
    /\ pre.aggregates = <<>>
    /\ \E a \in Insts : content[a] # 0

\* Position in vs of the first aggregate of S.
FirstFailing(vs, S) ==
    CHOOSE k \in 1..Len(vs) :
        vs[k] \in S /\ \A j \in 1..(k - 1) : vs[j] \notin S

\* C13: when store (restore) raises on the k-th aggregate that commit
\* (rollback) visits, the pass stops there: the k-1 aggregates before it
\* were each stored (restored) once, the k-th was attempted once, the
\* aggregates after it were not visited and keep their snapshot (content),
\* and the call ends with the adapter's error.
C13_StopsAtFirstFailure ==
    (lastOp \in {"commit", "rollback"} /\ failing # {}) =>
        LET vs == values(pre.aggregates)
            k  == FirstFailing(vs, failing)
        IN  IF lastOp = "commit"
            THEN /\ calls = [i \in 1..k |-> Call("store", vs[i])]
                 /\ outcome = storeResult(vs[k], failing)
                 /\ \A i \in 1..(k - 1) :
                       /\ has(stored, vs[i])
                       /\ stored[IdOf(vs[i])] = content[vs[i]]
                 /\ \A i \in k..Len(vs) :
                       /\ has(stored, vs[i]) <=> has(pre.stored, vs[i])
                       /\ has(stored, vs[i]) =>
                              stored[IdOf(vs[i])] = pre.stored[IdOf(vs[i])]
                 /\ content = pre.content
            ELSE /\ calls = [i \in 1..k |-> Call("restore", vs[i])]
                 /\ outcome = restoreResult(pre.stored, vs[k], failing)
                 /\ \A i \in 1..(k - 1) :
                       content[vs[i]] = stored[IdOf(vs[i])]
                 /\ \A i \in k..Len(vs) :
                       content[vs[i]] = pre.content[vs[i]]
                 /\ stored = pre.stored

\* C13 witness: of three tracked aggregates, store succeeded on the first,
\* raised on the second, and the third was not visited although store
\* would not have failed on it.
C13_Witness ==
    /\ lastOp = "commit"
    /\ Len(pre.aggregates) = 3
    /\ failing = {pre.aggregates[2].agg}
    /\ Len(calls) = 2
    /\ outcome = "StorageFailure"
    /\ has(stored, pre.aggregates[1].agg)
    /\ ~has(stored, pre.aggregates[3].agg)

\* C14: with a snapshot adapter, a rollback that directly follows a
\* completed rollback leaves the content of every aggregate as the first one
\* left it, and a commit that directly follows a completed commit leaves
\* the stored snapshots as the first one left them.
C14_RepeatIsIdempotent ==
    /\ (lastOp = "rollback" /\ pre.lastOp = "rollback"
           /\ pre.outcome = "ok") => content = pre.content
    /\ (lastOp = "commit" /\ pre.lastOp = "commit"
           /\ pre.outcome = "ok") => stored = pre.stored

\* C14 witness: a second completed rollback in a row over a tracked
\* aggregate whose snapshot is a state other than its first one.
C14_Witness ==
    /\ lastOp = "rollback"
    /\ pre.lastOp = "rollback"
    /\ pre.outcome = "ok"
    /\ outcome = "ok"
    /\ Len(calls) >= 1
    /\ \E a \in Tracked(aggregates) : content[a] # 0

\* C15: commit and rollback visit the tracked aggregates in the order in
\* which their identifiers were first added; adding again under a tracked
\* identifier changes the instance and keeps the position, so calls with no
\* add in between visit in the same order.
C15_VisitsInFirstAddOrder ==
    /\ [i \in 1..Len(aggregates) |-> aggregates[i].key] = order
    /\ (lastOp \in {"commit", "rollback"}) =>
          /\ Len(calls) <= Len(order)
          /\ \A i \in 1..Len(calls) :
                /\ IdOf(calls[i].agg) = order[i]
                /\ calls[i].agg = pre.aggregates[i].agg

\* C15 witness: with two identifiers tracked, an add under the first one
\* put another instance at position 1 and left the second entry in place.
C15_Witness ==
    /\ lastOp = "add"
    /\ Len(order) = 2
    /\ Len(pre.aggregates) = 2
    /\ \E a \in arg :
          /\ order[1] = IdOf(a)
          /\ pre.aggregates[1].agg # a
          /\ aggregates[1].agg = a
          /\ aggregates[2] = pre.aggregates[2]

\* C16: add invokes neither store nor restore and changes neither the
\* stored snapshots nor the content of any aggregate; it sets the entry of
\* the added aggregate's identifier and leaves every other entry as it was.
\* An identifier with no snapshot before the add has none after it.
C16_AddOnlyTouchesItsEntry ==
    (lastOp = "add") =>
        \A a \in arg :
            /\ calls = <<>>
            /\ stored = pre.stored
            /\ content = pre.content
            /\ ~has(pre.stored, a) => ~has(stored, a)
            /\ Entries(aggregates) =
                   {e \in Entries(pre.aggregates) : e[1] # IdOf(a)}
                       \cup {<<IdOf(a), a>>}
            /\ \A i \in 1..Len(pre.aggregates) :
                   pre.aggregates[i].key # IdOf(a) =>
                       aggregates[i] = pre.aggregates[i]

\* C16 witness: an aggregate added after a completed commit of another one
\* is tracked and has no snapshot, while the other entry and its snapshot
\* are as before.
C16_Witness ==
    /\ lastOp = "add"
    /\ pre.lastOp = "commit"
    /\ pre.outcome = "ok"
    /\ Len(aggregates) = 2
    /\ \E a \in arg : a = aggregates[2].agg /\ ~has(stored, a)
    /\ has(stored, aggregates[1].agg)

\* C17: two repository instances have independent identity maps. An add
\* on one never changes the map of the other, the first map holds the
\* aggregates added to the first repository and no others, and a commit or
\* rollback on one repository hands the adapter only aggregates tracked by
\* that repository.
C17_IndependentMaps ==
    /\ Entries(aggregates) = lastAdded
    /\ lastOp \in {"add", "commit", "rollback", "mutate"} => other = pre.other
    /\ lastOp \in {"add2", "commit2", "rollback2", "mutate"} =>
           aggregates = pre.aggregates
    /\ lastOp \in {"commit", "rollback"} =>
           {calls[i].agg : i \in 1..Len(calls)} \subseteq {p[2] : p \in lastAdded}
    /\ lastOp \in {"commit2", "rollback2"} =>
           {calls[i].agg : i \in 1..Len(calls)} \subseteq Tracked(pre.other)

\* C17 witness: each repository tracks an aggregate the other one does not,
\* and a completed commit on the first one stored its own aggregate alone.
C17_Witness ==
    /\ lastOp = "commit"
    /\ outcome = "ok"
    /\ Len(calls) = 1
    /\ Len(other) = 1
    /\ Tracked(other) \cap Tracked(aggregates) = {}
    /\ \A a \in Tracked(other) : ~has(stored, a)

====
